---- MODULE Spec2Model ----
(***************************************************************************)
(* Model of the actual-date inference core of JiraIssueLogger:             *)
(*   - detect_actual_dates  (jira_logger/core/jira/parser.py, duplicated   *)
(*     verbatim in jira_logger/core/jira/client.py)                        *)
(*   - calculate_duration   (jira_logger/core/jira/parser.py and           *)
(*     jira_logger/utils/date_utils.py)                                    *)
(*   - extract_jira_data    (jira_logger/core/jira/parser.py)              *)
(*   - the endpoints update-status, collect-closed-details and             *)
(*     collect-ac-details (jira_logger/api/endpoints.py) with the two      *)
(*     warehouse upserts (jira_logger/core/bigquery/client.py)             *)
(*                                                                         *)
(* Python values are encoded as follows.                                   *)
(*   Optional value : None is <<>>, a present value x is <<x>>.            *)
(*   dict key       : a record with a "kind" field telling whether the key *)
(*                    is missing, holds null, or holds a value.            *)
(*   exception      : the "exc" field of a result names the exception that *)
(*                    left the function ("none" when it returned).         *)
(***************************************************************************)
EXTENDS Integers, Sequences, FiniteSets, TLC

VARIABLES
    pc,              \* position of the modelled call: "ready" or "done"
    jira_data,       \* argument of detect_actual_dates
    status_changes,  \* local list status_changes of detect_actual_dates
    result,          \* value returned (or exception raised) by detect_actual_dates
    start_date,      \* first argument of calculate_duration
    end_date,        \* second argument of calculate_duration
    parser_duration, \* outcome of parser.calculate_duration(start_date, end_date)
    utils_duration,  \* outcome of date_utils.calculate_duration(start_date, end_date)
    later_duration,  \* outcome of parser.calculate_duration(start_date, end_date + 1 day)
    fields,          \* value of jira_data.get("fields", {}) in extract_jira_data
    details,         \* outcome of extract_jira_data(jira_data)
    table,           \* rows of the warehouse table, in storage order
    clock,           \* number of endpoint calls so far: the current timestamp
    endpoint,        \* endpoint of the last call
    fetched,         \* per issue of the last call: outcome of fetching and extracting
    source,          \* rows the last call handed to the warehouse for its MERGE
    response,        \* UpdateResponse of the last call
    endpoints_SSL_SETTINGS, \* the dict SSL_SETTINGS of api/endpoints.py
    parser_SSL_SETTINGS,    \* the dict SSL_SETTINGS of core/jira/parser.py
    files,           \* paths for which os.path.exists is true
    ssl_clock,       \* number of calls so far: the value of utcnow
    ssl_op,          \* the last call of the SSL model
    ssl_reply,       \* HTTP reply of the last call to /api/settings/ssl
    connect_used,    \* SSL verification of the last connect_to_jira_api
    search_used,     \* SSL verification of the last fetch_jira_issues
    sched_pc,        \* position of run_scheduler
    minutes,         \* wall clock of the scheduler, in minutes since midnight of day 0
    polls,           \* iterations of the polling loop so far
    next_run,        \* next_run of the three scheduled jobs
    calls,           \* calls of call_api_endpoint so far, in order
    stop_cause       \* what ended run_scheduler, "none" while it runs

detect_vars == <<pc, jira_data, status_changes, result>>
duration_vars == <<start_date, end_date, parser_duration, utils_duration, later_duration>>
extract_vars == <<fields, details>>
warehouse_vars == <<table, clock, endpoint, fetched, source, response>>
ssl_vars == <<endpoints_SSL_SETTINGS, parser_SSL_SETTINGS, files, ssl_clock, ssl_op,
              ssl_reply, connect_used, search_used>>
scheduler_vars == <<sched_pc, minutes, polls, next_run, calls, stop_cause>>
vars == <<detect_vars, duration_vars, extract_vars, warehouse_vars, ssl_vars,
          scheduler_vars>>

(***************************************************************************)
(* Python encodings                                                        *)
(***************************************************************************)
None == <<>>
Some(x) == <<x>>

\* Python `x in list`
In(x, list) == \E i \in DOMAIN list : list[i] = x

\* Python next(generator, None) over the already generated values
NextOrNone(values) == IF values = <<>> THEN None ELSE Head(values)

\* Python reversed(list)
Reversed(list) == [i \in 1..Len(list) |-> list[Len(list) + 1 - i]]

Min(S) == CHOOSE m \in S : \A n \in S : m <= n

(***************************************************************************)
(* Bounds of the explored inputs                                           *)
(***************************************************************************)
MaxTs == 2          \* distinct 'created' timestamps 1..MaxTs
MaxEvents == 3      \* histories of a one-status-item-per-history record
MaxHist == 2        \* histories of a record with arbitrary item lists
MaxItemsTotal == 3  \* items of such a record, over all its histories
MaxDay == 8         \* calendar days 0..MaxDay of the explored timestamps, day 0 a Monday
MaxTod == 1         \* times of day 0..MaxTod of the explored timestamps
MaxExtractEvents == 2  \* histories of a record given to extract_jira_data
MaxCalls == 3       \* endpoint calls of one run
MaxSslCalls == 3    \* calls of the SSL model in one run
MaxPolls == 2       \* iterations of the scheduler's polling loop

(***************************************************************************)
(* Configuration                                                           *)
(***************************************************************************)
\* status sets overridden so that neither holds the status strategy 2 names
StatusesWithoutStrategy2Names ==
    [start  |-> <<"Code review">>,
     finish |-> <<"Ready for deployment">>]
DEVELOPMENT_STATUSES ==
    [start  |-> <<"In Progress", "Code review">>,
     finish |-> <<"Deployed AC", "Ready for deployment">>]

\* Status labels the explored changelogs use
Statuses ==
    {"Ready for planning", "In Progress", "Code review",
     "Deployed AC", "Ready for deployment", "Closed"}

(***************************************************************************)
(* Status history extraction (the two nested loops of detect_actual_dates) *)
(***************************************************************************)
Raise(exception, changes) == [exc |-> exception, changes |-> changes]
Normal(changes) == [exc |-> "none", changes |-> changes]

\* ScanItems as it would be if it stopped at the first status item of a history
RECURSIVE ScanItemsFirstStatusOnly(_, _, _)
ScanItemsFirstStatusOnly(created, items, changes) ==
    IF items = <<>> THEN Normal(changes)
    ELSE LET item == Head(items) IN
         IF item.kind # "dict" THEN Raise("AttributeError", changes)
         ELSE IF item.field = "status"
              THEN Normal(Append(changes, [created |-> created,
                                           from    |-> item.fromString,
                                           to      |-> item.toString]))
              ELSE ScanItemsFirstStatusOnly(created, Tail(items), changes)

\* for item in history.get("items", []): keep items whose field is "status"
RECURSIVE ScanItems(_, _, _)
ScanItems(created, items, changes) ==
    IF items = <<>> THEN Normal(changes)
    ELSE LET item == Head(items) IN
         IF item.kind # "dict" THEN Raise("AttributeError", changes)
         ELSE IF item.field = "status"
              THEN ScanItems(created, Tail(items),
                       Append(changes, [created |-> created,
                                        from    |-> item.fromString,
                                        to      |-> item.toString]))
              ELSE ScanItems(created, Tail(items), changes)

\* history.get("items", [])
HistoryItems(history) ==
    IF history.items.kind = "missing" THEN <<>> ELSE history.items.list

\* for history in ...: scan every item of every history entry
RECURSIVE ScanHistories(_, _)
ScanHistories(histories, changes) ==
    IF histories = <<>> THEN Normal(changes)
    ELSE LET history == Head(histories) IN
         IF history.kind # "dict" THEN Raise("AttributeError", changes)
         ELSE IF history.items.kind = "null" THEN Raise("TypeError", changes)
         ELSE LET scanned == ScanItems(history.created, HistoryItems(history), changes)
              IN  IF scanned.exc # "none" THEN scanned
                  ELSE ScanHistories(Tail(histories), scanned.changes)

\* jira_data.get("changelog", {}).get("histories", [])
CollectStatusChanges(data) ==
    IF data.changelog.kind = "null" THEN Raise("AttributeError", <<>>)
    ELSE IF data.changelog.kind = "missing" \/ data.changelog.histories.kind = "missing"
         THEN Normal(<<>>)
    ELSE IF data.changelog.histories.kind = "null" THEN Raise("TypeError", <<>>)
    ELSE ScanHistories(data.changelog.histories.list, <<>>)

(***************************************************************************)
(* The two strategy cascades                                               *)
(***************************************************************************)
CreatedOf(changes) == [i \in 1..Len(changes) |-> changes[i].created]

IsStartStatus(change) == In(change.to, DEVELOPMENT_STATUSES.start)
IsFinishStatus(change) == In(change.to, DEVELOPMENT_STATUSES.finish)
IsDeployedAC(change) == change.to = "Deployed AC"

\* InProgressAfterPlanning as it would be if it looked at the whole list
InProgressWithPlanningAnywhere(changes, i) ==
    /\ changes[i].to = "In Progress"
    /\ \E j \in 1..Len(changes) : changes[j].to = "Ready for planning"

\* change["to"] == "In Progress" and any(prev["to"] == "Ready for planning"
\*                                        for prev in status_changes[:i])
InProgressAfterPlanning(changes, i) ==
    /\ changes[i].to = "In Progress"
    /\ \E j \in 1..(i - 1) : changes[j].to = "Ready for planning"

\* StartStrategy1 as it would be if it scanned from the end
StartStrategy1Last(changes) ==
    NextOrNone(CreatedOf(SelectSeq(Reversed(changes), IsStartStatus)))

\* First development-related status
StartStrategy1(changes) ==
    NextOrNone(CreatedOf(SelectSeq(changes, IsStartStatus)))

\* First 'In Progress' after 'Ready for planning'
StartStrategy2(changes) ==
    LET matching == {i \in 1..Len(changes) : InProgressAfterPlanning(changes, i)}
    IN  IF matching = {} THEN None ELSE changes[Min(matching)].created

\* StartStrategy3 as it would be if it took the last element
StartStrategy3Last(changes) ==
    IF changes # <<>> THEN changes[Len(changes)].created ELSE None

\* status_changes[0]["created"] if status_changes else None
StartStrategy3(changes) ==
    IF changes # <<>> THEN changes[1].created ELSE None

start_strategies(changes) ==
    <<StartStrategy1(changes), StartStrategy2(changes), StartStrategy3(changes)>>

\* FinishStrategy1 as it would be without reversed()
FinishStrategy1First(changes) ==
    NextOrNone(CreatedOf(SelectSeq(changes, IsFinishStatus)))

\* Last development-related finish status
FinishStrategy1(changes) ==
    NextOrNone(CreatedOf(SelectSeq(Reversed(changes), IsFinishStatus)))

\* Last 'Deployed AC' status
FinishStrategy2(changes) ==
    NextOrNone(CreatedOf(SelectSeq(Reversed(changes), IsDeployedAC)))

\* status_changes[-1]["created"] if status_changes else None
FinishStrategy3(changes) ==
    IF changes # <<>> THEN changes[Len(changes)].created ELSE None

finish_strategies(changes) ==
    <<FinishStrategy1(changes), FinishStrategy2(changes), FinishStrategy3(changes)>>

\* next((date for date in strategies if date is not None), None)
IsNotNone(date) == date # None
FirstNotNone(strategies) == NextOrNone(SelectSeq(strategies, IsNotNone))

StartLabels ==
    <<"First development status", "First 'In Progress' after planning",
      "First status change">>
FinishLabels ==
    <<"Last development finish status", "Last 'Deployed AC' status",
      "Last status change">>

\* the conditional expressions that pick start_method / finish_method
MethodOf(date, strategies, labels) ==
    IF date = strategies[1] THEN Some(labels[1])
    ELSE IF date = strategies[2] THEN Some(labels[2])
    ELSE Some(labels[3])

Returned(start, finish, start_method, finish_method) ==
    [exc |-> "none", start |-> start, finish |-> finish,
     start_method |-> start_method, finish_method |-> finish_method]

Raised(exception) ==
    [exc |-> exception, start |-> None, finish |-> None,
     start_method |-> None, finish_method |-> None]

\* the part of detect_actual_dates after the extraction loops
InferDates(changes) ==
    LET selected_start  == FirstNotNone(start_strategies(changes))
        selected_finish == FirstNotNone(finish_strategies(changes))
    IN  Returned(selected_start, selected_finish,
                 MethodOf(selected_start, start_strategies(changes), StartLabels),
                 MethodOf(selected_finish, finish_strategies(changes), FinishLabels))

\* `not jira_data`: None and the empty dict are falsy
IsFalsy(data) == data.kind \in {"none", "empty"}

detect_actual_dates(data) ==
    IF IsFalsy(data) THEN Returned(None, None, None, None)
    ELSE LET collected == CollectStatusChanges(data)
         IN  IF collected.exc # "none" THEN Raised(collected.exc)
             ELSE InferDates(collected.changes)

\* value of the local status_changes when the call ends
StatusChangesOf(data) ==
    IF IsFalsy(data) THEN <<>> ELSE CollectStatusChanges(data).changes

(***************************************************************************)
(* Explored inputs                                                         *)
(***************************************************************************)
Timestamps == {None} \cup {Some(t) : t \in 1..MaxTs}

StatusItem(to) ==
    [kind |-> "dict", field |-> "status", fromString |-> "Open", toString |-> to]
\* an item of another field whose toString would match the start set
OtherItem ==
    [kind |-> "dict", field |-> "assignee", fromString |-> "Open",
     toString |-> "In Progress"]
\* an element of items that is no key-value structure
BadItem ==
    [kind |-> "notdict", field |-> "", fromString |-> "", toString |-> ""]

Key(kind, list) == [kind |-> kind, list |-> list]
Entry(created, items) == [kind |-> "dict", created |-> created, items |-> items]
\* an element of histories that is no key-value structure
BadEntry == [kind |-> "notdict", created |-> None, items |-> Key("missing", <<>>)]

Changelog(kind, histories) == [kind |-> kind, histories |-> histories]
NoChangelog == Changelog("missing", Key("missing", <<>>))
Record(changelog) == [kind |-> "dict", changelog |-> changelog]
WithHistories(histories) == Record(Changelog("dict", Key("list", histories)))

\* sequences over S of length at most n
RECURSIVE SeqsUpTo(_, _)
SeqsUpTo(S, n) ==
    IF n = 0 THEN {<<>>}
    ELSE LET shorter == SeqsUpTo(S, n - 1)
         IN  shorter \cup {Append(s, x) : s \in {t \in shorter : Len(t) = n - 1}, x \in S}

\* history entries with exactly one status item and any timestamp, present or not
EventEntries ==
    {Entry(created, Key("list", <<StatusItem(to)>>)) :
        created \in Timestamps, to \in Statuses}

\* records of n such history entries
EventRecords(n) ==
    {WithHistories(histories) : histories \in [1..n -> EventEntries]}

StructItems == {StatusItem("In Progress"), StatusItem("Deployed AC"), OtherItem, BadItem}

\* history entries holding exactly n items (n = 0: also the degenerate entries)
EntriesWith(created, n) ==
    LET lists == {Entry(created, Key("list", items)) :
                     items \in {s \in SeqsUpTo(StructItems, n) : Len(s) = n}}
    IN  IF n = 0
        THEN lists \cup {Entry(created, Key("missing", <<>>)),
                         Entry(created, Key("null", <<>>)), BadEntry}
        ELSE lists

\* history lists of at most n further entries holding at most budget items;
\* the k-th entry is created at timestamp ((k - 1) % MaxTs) + 1
RECURSIVE HistoryLists(_, _, _)
HistoryLists(k, n, budget) ==
    IF n = 0 THEN {<<>>}
    ELSE {<<>>} \cup
         UNION {{<<entry>> \o rest :
                    entry \in EntriesWith(Some(((k - 1) % MaxTs) + 1), used),
                    rest \in HistoryLists(k + 1, n - 1, budget - used)} :
                used \in 0..budget}

\* records whose changelog has any shape, well-formed or not
StructRecords ==
    {[kind |-> "none", changelog |-> NoChangelog],
     [kind |-> "empty", changelog |-> NoChangelog],
     Record(NoChangelog),
     Record(Changelog("null", Key("missing", <<>>))),
     Record(Changelog("dict", Key("missing", <<>>))),
     Record(Changelog("dict", Key("null", <<>>)))}
    \cup {WithHistories(histories) : histories \in HistoryLists(1, MaxHist, MaxItemsTotal)}

(***************************************************************************)
(* Business-day duration (calculate_duration, twice in the repository)     *)
(*                                                                         *)
(* A timestamp string is a record: form "iso" with a calendar day, a time  *)
(* of day and a zone suffix ("" for none, "Z", or "+00:00"), or a string   *)
(* that is no ISO timestamp ("garbage"), or the empty string ("empty").    *)
(* A datetime is [day, tod, aware].                                        *)
(***************************************************************************)
\* `not date_str`: None and the empty string are falsy
IsFalsyString(date_str) == date_str = None \/ date_str[1].form = "empty"

\* date_str.replace("Z", "+00:00")
ReplaceZ(str) == IF str.zone = "Z" THEN [str EXCEPT !.zone = "+00:00"] ELSE str

\* datetime.datetime.fromisoformat(...): a datetime or ValueError
FromIsoFormat(str) ==
    IF str.form # "iso" \/ str.zone = "Z"
    THEN [exc |-> "ValueError", day |-> 0, tod |-> 0, aware |-> FALSE]
    ELSE [exc |-> "none", day |-> str.day, tod |-> str.tod,
          aware |-> (str.zone = "+00:00")]

\* the day of the week counted from Sunday, as isoweekday() % 7 would give it
WeekdayFromSunday(dt) == (dt.day + 1) % 7
\* datetime.weekday(): Monday is 0, Sunday is 6
Weekday(dt) == dt.day % 7

\* a comparison of the calendar dates only
NotLaterByDate(current, end) == current.day <= end.day
\* current <= end on two datetimes that can be compared
NotLater(current, end) ==
    current.day < end.day \/ (current.day = end.day /\ current.tod <= end.tod)

\* current + datetime.timedelta(days=1)
PlusOneDay(current) == [current EXCEPT !.day = @ + 1]

\* the loop with the weekday test applied to end instead of current
RECURSIVE CountWeekdaysOfEnd(_, _, _)
CountWeekdaysOfEnd(current, end, total_days) ==
    IF NotLater(current, end)
    THEN CountWeekdaysOfEnd(PlusOneDay(current), end,
                            IF Weekday(end) < 5 THEN total_days + 1 ELSE total_days)
    ELSE total_days
\* the while loop of calculate_duration
RECURSIVE CountWeekdays(_, _, _)
CountWeekdays(current, end, total_days) ==
    IF NotLater(current, end)
    THEN CountWeekdays(PlusOneDay(current), end,
                       IF Weekday(current) < 5 THEN total_days + 1 ELSE total_days)
    ELSE total_days

\* round(total_days, 2) of an int is that int
Round2(total_days) == total_days

DurationReturned(value) == [exc |-> "none", value |-> value]
DurationRaised(exception) == [exc |-> exception, value |-> None]
Pending == [exc |-> "pending", value |-> None]

\* the counting part shared by both copies: comparing a naive with an aware
\* datetime raises TypeError
LoopOutcome(start, end) ==
    IF start.aware # end.aware THEN DurationRaised("TypeError")
    ELSE DurationReturned(Some(Round2(CountWeekdays(start, end, 0))))

\* parser.calculate_duration: ValueError and TypeError are caught
calculate_duration(start, end) ==
    IF IsFalsyString(start) \/ IsFalsyString(end) THEN DurationReturned(None)
    ELSE LET s == FromIsoFormat(ReplaceZ(start[1]))
             e == FromIsoFormat(ReplaceZ(end[1]))
         IN  IF s.exc # "none" \/ e.exc # "none" THEN DurationReturned(None)
             ELSE IF LoopOutcome(s, e).exc # "none" THEN DurationReturned(None)
             ELSE LoopOutcome(s, e)

\* date_utils.parse_iso_date: None or Some(datetime)
parse_iso_date(date_str) ==
    IF IsFalsyString(date_str) THEN None
    ELSE LET parsed == FromIsoFormat(ReplaceZ(date_str[1]))
         IN  IF parsed.exc # "none" THEN None ELSE Some(parsed)

\* the copy without its check of the parsed values: the loop then compares
\* None with a datetime
utils_calculate_duration_unchecked(start, end) ==
    IF IsFalsyString(start) \/ IsFalsyString(end) THEN DurationReturned(None)
    ELSE LET s == parse_iso_date(start)
             e == parse_iso_date(end)
         IN  IF s = None \/ e = None THEN DurationRaised("TypeError")
             ELSE LoopOutcome(s[1], e[1])
\* date_utils.calculate_duration: nothing is caught around the loop
utils_calculate_duration(start, end) ==
    IF IsFalsyString(start) \/ IsFalsyString(end) THEN DurationReturned(None)
    ELSE LET s == parse_iso_date(start)
             e == parse_iso_date(end)
         IN  IF s = None \/ e = None THEN DurationReturned(None)
             ELSE LoopOutcome(s[1], e[1])

\* explored timestamp strings
IsoStrings ==
    [form : {"iso"}, day : 0..MaxDay, tod : 0..MaxTod, zone : {"", "Z", "+00:00"}]
DateStrings ==
    {None, Some([form |-> "empty", day |-> 0, tod |-> 0, zone |-> ""]),
     Some([form |-> "garbage", day |-> 0, tod |-> 0, zone |-> ""])}
    \cup {Some(str) : str \in IsoStrings}

\* the same argument one calendar day later: only a timestamp has a next day
OneDayLater(date_str) ==
    IF date_str # None /\ date_str[1].form = "iso"
    THEN Some([date_str[1] EXCEPT !.day = @ + 1])
    ELSE date_str

(***************************************************************************)
(* The pipeline entry point extract_jira_data                              *)
(*                                                                         *)
(* The record is held in two parts: jira_data carries its changelog and    *)
(* fields carries what jira_data.get("fields", {}) yields.                 *)
(***************************************************************************)
Fields(kind, planned_start, planned_finish) ==
    [kind |-> kind, customfield_15990 |-> planned_start,
     customfield_15994 |-> planned_finish]
\* no "fields" key: the default {} is used
NoFields == Fields("missing", None, None)
\* "fields": null
NullFields == Fields("null", None, None)

\* a date-only string as the planned date fields hold it
DateOnly(day) == Some([form |-> "iso", day |-> day, tod |-> 0, zone |-> ""])
\* the string of a history's 'created' timestamp
CreatedString(created) ==
    IF created = None THEN None
    ELSE Some([form |-> "iso", day |-> created[1], tod |-> 0, zone |-> "+00:00"])

Extracted(value) == [exc |-> "none", value |-> value]
ExtractRaised(exception) == [exc |-> exception, value |-> None]
ExtractPending == [exc |-> "pending", value |-> None]

\* the result dict built from the planned dates and the detected dates
FormatResults(planned_dev_start, planned_dev_finish, actual_dates) ==
    IF actual_dates.exc # "none" THEN ExtractRaised(actual_dates.exc)
    ELSE Extracted(Some(
        [Planned |->
            [start    |-> planned_dev_start,
             finish   |-> planned_dev_finish,
             duration |-> calculate_duration(planned_dev_start,
                                             planned_dev_finish).value],
         Actual |->
            [start    |-> actual_dates.start,
             finish   |-> actual_dates.finish,
             duration |-> calculate_duration(
                              CreatedString(actual_dates.start),
                              CreatedString(actual_dates.finish)).value,
             start_method  |-> actual_dates.start_method,
             finish_method |-> actual_dates.finish_method]]))

extract_jira_data(data, fields_value) ==
    IF IsFalsy(data) THEN Extracted(None)
    ELSE IF fields_value.kind = "null" THEN ExtractRaised("AttributeError")
    ELSE FormatResults(fields_value.customfield_15990,
                       fields_value.customfield_15994,
                       detect_actual_dates(data))

\* explored planned dates and "fields" values
PlannedDates ==
    {None, Some([form |-> "garbage", day |-> 0, tod |-> 0, zone |-> ""]),
     DateOnly(0), DateOnly(2)}
FieldsValues ==
    {NoFields, NullFields}
    \cup {Fields("dict", planned_start, planned_finish) :
              planned_start \in PlannedDates, planned_finish \in PlannedDates}
\* None and {} hold no "fields" key
FieldsOf(data) == IF IsFalsy(data) THEN {NoFields} ELSE FieldsValues

\* records without a well-formed changelog
DegenerateRecords ==
    {[kind |-> "none", changelog |-> NoChangelog],
     [kind |-> "empty", changelog |-> NoChangelog],
     Record(NoChangelog),
     Record(Changelog("null", Key("missing", <<>>))),
     Record(Changelog("dict", Key("missing", <<>>))),
     Record(Changelog("dict", Key("null", <<>>)))}

(***************************************************************************)
(* The warehouse table and its two upserts (core/bigquery/client.py)       *)
(*                                                                         *)
(* A row is a record of the twelve columns; NULL is None.  A timestamp     *)
(* written by a call is the number of that call.                           *)
(***************************************************************************)
IssueKeys == <<"EI-1", "EI-2">>

VALID_STATUSES == <<"in progress", "deployed ac", "deployed pd", "closed">>

\* the dict returned by both upserts
UpsertResult(updated_count, inserted_count, error_count, errors) ==
    [updated_count |-> updated_count, inserted_count |-> inserted_count,
     error_count |-> error_count, errors |-> errors]
\* str(e) of a failed warehouse job
WarehouseError == [message |-> "warehouse job failed", issue_key |-> ""]

\* one element of rows_to_insert
StatusRow(issue, current_timestamp) ==
    [issue_key          |-> issue.issue_key,
     summary            |-> issue.summary,
     status             |-> issue.status,
     project_ticket     |-> issue.project_ticket,
     planned_dev_start  |-> issue.planned_dev_start,
     planned_dev_finish |-> issue.planned_dev_finish,
     planned_duration   |-> issue.planned_duration,
     last_updated_at    |-> Some(current_timestamp)]

\* positions of the source rows that satisfy ON T.issue_key = S.issue_key
Matches(row, rows) == {j \in DOMAIN rows : rows[j].issue_key = row.issue_key}
\* a MERGE fails when a target row matches more than one source row
MergeFails(target, rows) ==
    \E i \in DOMAIN target : Cardinality(Matches(target[i], rows)) > 1
MatchOf(row, rows) == rows[CHOOSE j \in Matches(row, rows) : TRUE]

\* WHEN MATCHED THEN UPDATE SET of update_issues_status
UpdatedStatusRow(row, s) ==
    [row EXCEPT !.status = s.status,
                !.summary = s.summary,
                !.project_ticket = s.project_ticket,
                !.planned_dev_start = s.planned_dev_start,
                !.planned_dev_finish = s.planned_dev_finish,
                !.planned_duration = s.planned_duration,
                !.last_updated_at = s.last_updated_at]
\* WHEN NOT MATCHED THEN INSERT of update_issues_status: the columns not
\* listed are NULL
InsertedStatusRow(s) ==
    [issue_key          |-> s.issue_key,
     summary            |-> s.summary,
     status             |-> s.status,
     project_ticket     |-> s.project_ticket,
     planned_dev_start  |-> s.planned_dev_start,
     planned_dev_finish |-> s.planned_dev_finish,
     planned_duration   |-> s.planned_duration,
     actual_start       |-> None,
     actual_finish      |-> None,
     actual_duration    |-> None,
     details_updated_at |-> None,
     last_updated_at    |-> s.last_updated_at]

NotMatched(target, rows) ==
    SelectSeq(rows, LAMBDA s : \A i \in DOMAIN target : target[i].issue_key # s.issue_key)

\* an INSERT of every source row, without the ON condition
MergeStatusInsertAll(target, rows) ==
    target \o [j \in DOMAIN rows |-> InsertedStatusRow(rows[j])]
\* the MERGE statement of update_issues_status
MergeStatus(target, rows) ==
    [i \in DOMAIN target |->
        IF Matches(target[i], rows) # {}
        THEN UpdatedStatusRow(target[i], MatchOf(target[i], rows))
        ELSE target[i]]
    \o [j \in DOMAIN NotMatched(target, rows) |->
            InsertedStatusRow(NotMatched(target, rows)[j])]

\* WHEN MATCHED THEN UPDATE SET of update_issue_details
UpdatedDetailsRow(row, s) ==
    [row EXCEPT !.actual_start = s.actual_start,
                !.actual_finish = s.actual_finish,
                !.actual_duration = s.actual_duration,
                !.details_updated_at = s.details_updated_at]

\* the update also stamping last_updated_at, as the status upsert does
MergeDetailsTouching(target, rows) ==
    [i \in DOMAIN target |->
        IF Matches(target[i], rows) # {}
        THEN [UpdatedDetailsRow(target[i], MatchOf(target[i], rows))
              EXCEPT !.last_updated_at = MatchOf(target[i], rows).details_updated_at]
        ELSE target[i]]
\* the MERGE statement of update_issue_details: it has no WHEN NOT MATCHED
MergeDetails(target, rows) ==
    [i \in DOMAIN target |->
        IF Matches(target[i], rows) # {}
        THEN UpdatedDetailsRow(target[i], MatchOf(target[i], rows))
        ELSE target[i]]

\* what the jobs of one upsert do: all succeed, one before the MERGE fails,
\* or one after the MERGE fails (clean-up, count query)
UpsertOutcomes == {"done", "fails before MERGE", "fails after MERGE"}

Upserted(new_table, upsert_result, rows) ==
    [table |-> new_table, result |-> upsert_result, rows |-> rows]

update_issues_status(target, issues, current_timestamp, outcome, counted) ==
    IF issues = <<>> THEN Upserted(target, UpsertResult(0, 0, 0, <<>>), <<>>)
    ELSE LET rows_to_insert ==
                 [i \in DOMAIN issues |-> StatusRow(issues[i], current_timestamp)]
             failed == UpsertResult(0, 0, 1, <<WarehouseError>>)
         IN  IF outcome = "fails before MERGE" \/ MergeFails(target, rows_to_insert)
             THEN Upserted(target, failed, rows_to_insert)
             ELSE IF outcome = "fails after MERGE"
             THEN Upserted(MergeStatus(target, rows_to_insert), failed, rows_to_insert)
             ELSE Upserted(MergeStatus(target, rows_to_insert),
                           IF counted
                           THEN UpsertResult(
                                    Len(issues) - Len(NotMatched(target, rows_to_insert)),
                                    Len(NotMatched(target, rows_to_insert)), 0, <<>>)
                           ELSE UpsertResult(Len(issues), 0, 0, <<>>),
                           rows_to_insert)

update_issue_details(target, issues, outcome) ==
    IF issues = <<>> THEN Upserted(target, UpsertResult(0, 0, 0, <<>>), <<>>)
    ELSE LET failed == UpsertResult(0, 0, 1, <<WarehouseError>>)
         IN  IF outcome = "fails before MERGE" \/ MergeFails(target, issues)
             THEN Upserted(target, failed, issues)
             ELSE IF outcome = "fails after MERGE"
             THEN Upserted(MergeDetails(target, issues), failed, issues)
             ELSE Upserted(MergeDetails(target, issues),
                           UpsertResult(Len(issues), 0, 0, <<>>), issues)

\* the WHERE clause without its IS NULL conditions
NeedsDetailsByStatus(row, statuses) == In(row.status, statuses)
\* the WHERE clause of get_issues_needing_details
NeedsDetails(row, statuses) ==
    /\ In(row.status, statuses)
    /\ \/ row.actual_start = None
       \/ row.actual_finish = None
       \/ row.actual_duration = None
\* the issue keys selected by get_issues_needing_details, in storage order
get_issues_needing_details(target, statuses) ==
    LET selected == SelectSeq(target, LAMBDA row : NeedsDetails(row, statuses))
    IN  [i \in DOMAIN selected |-> selected[i].issue_key]

\* the issue keys selected by get_issues_by_status, in storage order
get_issues_by_status(target, status) ==
    LET selected == SelectSeq(target, LAMBDA row : row.status = status)
    IN  [i \in DOMAIN selected |-> selected[i].issue_key]

(***************************************************************************)
(* The endpoints update-status, collect-closed-details, collect-ac-details *)
(* (api/endpoints.py)                                                      *)
(***************************************************************************)
\* str.lower() on the status names of the explored issues
Lower(name) ==
    CASE name = "In Progress" -> "in progress"
      [] name = "Deployed AC" -> "deployed ac"
      [] name = "Deployed PD" -> "deployed pd"
      [] name = "Closed" -> "closed"
      [] OTHER -> name

\* one element of data["issues"] of the Jira search
SearchHit(key, name, planned_start, planned_finish) ==
    [key |-> key, summary |-> "summary", name |-> name,
     customfield_11491 |-> "ticket",
     customfield_15990 |-> planned_start, customfield_15994 |-> planned_finish]

\* the issue built from one search hit
IssueOf(hit) ==
    [issue_key          |-> hit.key,
     summary            |-> hit.summary,
     status             |-> Lower(hit.name),
     project_ticket     |-> hit.customfield_11491,
     planned_dev_start  |-> hit.customfield_15990,
     planned_dev_finish |-> hit.customfield_15994,
     planned_duration   |-> None]

FetchReturned(issues) == [exc |-> "none", issues |-> issues]
FetchRaised(exception) == [exc |-> exception, issues |-> <<>>]
\* fetch_jira_issues: any failure is re-raised as HTTPException
fetch_jira_issues(search) ==
    IF search.exc # "none" THEN FetchRaised("HTTPException")
    ELSE FetchReturned([i \in DOMAIN search.issues |-> IssueOf(search.issues[i])])

Error(message, issue_key) == [message |-> message, issue_key |-> issue_key]
\* str(e) of an exception caught around a whole endpoint
EndpointError == Error("exception", "")

\* POST /api/update-status
update_status(target, search, current_timestamp, outcome, counted) ==
    LET fetch == fetch_jira_issues(search)
    IN  IF fetch.exc # "none"
        THEN Upserted(target, UpsertResult(0, 0, 1, <<EndpointError>>), <<>>)
        ELSE IF fetch.issues = <<>>
        THEN Upserted(target, UpsertResult(0, 0, 0, <<>>), <<>>)
        ELSE update_issues_status(target, fetch.issues, current_timestamp,
                                  outcome, counted)

ConnectReturned(data) == [exc |-> "none", data |-> data]
ConnectRaised(exception) == [exc |-> exception, data |-> [kind |-> "none", changelog |-> NoChangelog]]

\* the body of the loop over issue_keys: what one issue contributes
Processed(issue_key, extraction, error, updated_issue) ==
    [issue_key |-> issue_key, details |-> extraction, error |-> error,
     updated_issue |-> updated_issue]
\* the loop body once extract_jira_data has been called
ProcessDetails(issue_key, extraction, current_timestamp) ==
    IF extraction.exc # "none"
    THEN Processed(issue_key, extraction,
                   Some(Error("Error processing issue", issue_key)), None)
    ELSE IF extraction.value = None
    THEN Processed(issue_key, extraction,
                   Some(Error("Could not extract details for issue", issue_key)), None)
    ELSE Processed(issue_key, extraction, None,
                   Some([issue_key          |-> issue_key,
                         actual_start       |-> extraction.value[1].Actual.start,
                         actual_finish      |-> extraction.value[1].Actual.finish,
                         actual_duration    |-> extraction.value[1].Actual.duration,
                         details_updated_at |-> Some(current_timestamp)]))
ProcessIssue(issue_key, connect, current_timestamp) ==
    IF connect.exc # "none"
    THEN Processed(issue_key, ExtractPending,
                   Some(Error("Error processing issue", issue_key)), None)
    ELSE IF IsFalsy(connect.data)
    THEN Processed(issue_key, ExtractPending,
                   Some(Error("Failed to retrieve Jira data for issue", issue_key)), None)
    ELSE ProcessDetails(issue_key, extract_jira_data(connect.data, NoFields),
                        current_timestamp)

\* the values appended to a list in the loop: those that are present
RECURSIVE Present(_)
Present(values) ==
    IF values = <<>> THEN <<>>
    ELSE (IF Head(values) = None THEN <<>> ELSE <<Head(values)[1]>>)
         \o Present(Tail(values))

Collected(new_table, upsert_result, rows, processed) ==
    [table |-> new_table, result |-> upsert_result, rows |-> rows,
     processed |-> processed]

\* the response after update_issue_details: its errors and error_count are
\* overwritten with those of the loop
DetailsResponse(upsert, errors, processed) ==
    Collected(upsert.table,
              [upsert.result EXCEPT !.errors = errors, !.error_count = Len(errors)],
              upsert.rows, processed)

\* the part of the handler after the loop
SendUpdated(target, updated_issues, errors, processed, outcome) ==
    IF updated_issues = <<>>
    THEN Collected(target, UpsertResult(0, 0, Len(errors), errors), <<>>, processed)
    ELSE DetailsResponse(update_issue_details(target, updated_issues, outcome),
                         errors, processed)

\* updated_issues and errors as the loop leaves them
AfterLoop(target, processed, outcome) ==
    SendUpdated(target,
                Present([i \in DOMAIN processed |-> processed[i].updated_issue]),
                Present([i \in DOMAIN processed |-> processed[i].error]),
                processed, outcome)

\* the loop leaving at the first issue that fails (break for continue)
CollectForStopping(target, issue_keys, connects, current_timestamp, outcome) ==
    IF issue_keys = <<>>
    THEN Collected(target, UpsertResult(0, 0, 0, <<>>), <<>>, <<>>)
    ELSE AfterLoop(target,
                   [i \in {j \in DOMAIN issue_keys :
                              \A h \in 1..(j - 1) :
                                  ProcessIssue(issue_keys[h], connects[h],
                                               current_timestamp).error = None} |->
                       ProcessIssue(issue_keys[i], connects[i], current_timestamp)],
                   outcome)
\* the handler once the issue keys are known
CollectFor(target, issue_keys, connects, current_timestamp, outcome) ==
    IF issue_keys = <<>>
    THEN Collected(target, UpsertResult(0, 0, 0, <<>>), <<>>, <<>>)
    ELSE AfterLoop(target,
                   [i \in DOMAIN issue_keys |->
                       ProcessIssue(issue_keys[i], connects[i], current_timestamp)],
                   outcome)

\* POST /api/collect-closed-details and POST /api/collect-ac-details: the
\* two bodies differ in the warehouse query only
collect_details(target, issue_keys, query_fails, connects, current_timestamp, outcome) ==
    IF query_fails
    THEN Collected(target, UpsertResult(0, 0, 1, <<EndpointError>>), <<>>, <<>>)
    ELSE CollectFor(target, issue_keys, connects, current_timestamp, outcome)

\* collect_closed_details: issues closed or deployed pd that lack a detail
ClosedIssueKeys(target) ==
    get_issues_needing_details(target, <<"closed", "deployed pd">>)
\* collect_ac_details: every issue in deployed ac
AcIssueKeys(target) == get_issues_by_status(target, "deployed ac")

\* explored Jira search results: the first issue, if found, in any explored
\* status with or without planned dates; the second issue, if found, closed
\* and without planned dates
StatusNames == {"In Progress", "Deployed AC", "Closed"}
PlannedPairs == {<<None, None>>, <<DateOnly(0), DateOnly(2)>>}
FirstHits ==
    {<<>>} \cup {<<SearchHit(IssueKeys[1], name, planned[1], planned[2])>> :
                    name \in StatusNames, planned \in PlannedPairs}
SecondHits == {<<>>, <<SearchHit(IssueKeys[2], "Closed", None, None)>>}
SearchResults ==
    {[exc |-> "RequestException", issues |-> <<>>]}
    \cup {[exc |-> "none", issues |-> first \o second] :
              first \in FirstHits, second \in SecondHits}

\* explored outcomes of connect_to_jira_api for one issue
IssueRecords ==
    {Record(NoChangelog),
     Record(Changelog("null", Key("missing", <<>>))),
     WithHistories(<<Entry(Some(1), Key("list", <<StatusItem("In Progress")>>))>>),
     WithHistories(<<Entry(Some(1), Key("list", <<StatusItem("In Progress")>>)),
                     Entry(Some(2), Key("list", <<StatusItem("Deployed AC")>>))>>)}
ConnectOutcomes ==
    {ConnectRaised("ValueError"),
     ConnectReturned([kind |-> "none", changelog |-> NoChangelog])}
    \cup {ConnectReturned(data) : data \in IssueRecords}

(***************************************************************************)
(* The SSL settings (api/endpoints.py, core/jira/parser.py,                *)
(* utils/ssl_utils.py)                                                     *)
(***************************************************************************)
\* the explored paths: a CA bundle that exists, a file that does not, and
\* the first location find_netskope_certificate looks at
CaBundle == "/certs/ca.pem"
MissingFile == "/certs/missing.pem"
NetskopeCert == "C:/ProgramData/Netskope/STAgent/data/nscacert_combined.pem"

\* Python `not path` for an Optional[str]
IsFalsyPath(path) == path = None \/ path = Some("")

find_netskope_certificate(existing) ==
    IF NetskopeCert \in existing THEN Some(NetskopeCert) ELSE None

\* the values of requests' verify argument: Python False and True by name,
\* or the path of a CA bundle
Verification(verify, ca_bundle) == [verify |-> verify, ca_bundle |-> ca_bundle]
\* the function returning `cert_path or False`
configure_ssl_verification_or_false(cert_path, bypass_verify, existing) ==
    IF bypass_verify THEN Verification("False", None)
    ELSE IF IsFalsyPath(cert_path)
    THEN IF IsFalsyPath(find_netskope_certificate(existing))
         THEN Verification("False", find_netskope_certificate(existing))
         ELSE Verification(find_netskope_certificate(existing)[1],
                           find_netskope_certificate(existing))
    ELSE Verification(cert_path[1], cert_path)
configure_ssl_verification(cert_path, bypass_verify, existing) ==
    IF bypass_verify THEN Verification("False", None)
    ELSE IF IsFalsyPath(cert_path)
    THEN IF IsFalsyPath(find_netskope_certificate(existing))
         THEN Verification("True", find_netskope_certificate(existing))
         ELSE Verification(find_netskope_certificate(existing)[1],
                           find_netskope_certificate(existing))
    ELSE Verification(cert_path[1], cert_path)

\* a dict SSL_SETTINGS
SslSettings(use_ssl_verification, certificate_path, last_updated) ==
    [use_ssl_verification |-> use_ssl_verification,
     certificate_path     |-> certificate_path,
     last_updated         |-> last_updated]

\* the body of a POST /api/settings/ssl
SSLSettingsUpdate(use_ssl_verification, certificate_path) ==
    [use_ssl_verification |-> use_ssl_verification,
     certificate_path     |-> certificate_path]

SslReply(status, body) == [status |-> status, body |-> body]
SslUpdated(settings, reply) == [settings |-> settings, reply |-> reply]
\* the error body of the HTTPException, as settings that hold nothing
CertificateNotFound == SslReply(400, SslSettings(FALSE, None, None))

\* update_ssl_settings once use_ssl_verification has been assigned
UpdateCertificate(current, update, existing, utcnow) ==
    IF ~IsFalsyPath(update.certificate_path)
    THEN IF update.certificate_path[1] \notin existing
         THEN SslUpdated(current, CertificateNotFound)
         ELSE SslUpdated(SslSettings(current.use_ssl_verification,
                                     update.certificate_path, Some(utcnow)),
                         SslReply(200, SslSettings(current.use_ssl_verification,
                                                   update.certificate_path,
                                                   Some(utcnow))))
    ELSE IF ~update.use_ssl_verification
    THEN SslUpdated(SslSettings(current.use_ssl_verification, None, Some(utcnow)),
                    SslReply(200, SslSettings(current.use_ssl_verification, None,
                                              Some(utcnow))))
    ELSE SslUpdated(SslSettings(current.use_ssl_verification,
                                current.certificate_path, Some(utcnow)),
                    SslReply(200, SslSettings(current.use_ssl_verification,
                                              current.certificate_path,
                                              Some(utcnow))))

\* POST /api/settings/ssl
update_ssl_settings(current, update, existing, utcnow) ==
    UpdateCertificate([current EXCEPT !.use_ssl_verification =
                                          update.use_ssl_verification],
                      update, existing, utcnow)

\* GET /api/settings/ssl
get_ssl_settings(current) == SslReply(200, current)

\* what a request to Jira was made with
Used(bypass_ssl_verify, bypass_verify, cert_path, verification) ==
    [bypass_ssl_verify |-> bypass_ssl_verify, bypass_verify |-> bypass_verify,
     cert_path |-> cert_path, verify |-> verification.verify]
NotUsed == Used(None, FALSE, None, Verification("True", None))

\* connect_to_jira_api: the verify argument of its requests.get
ConnectVerification(bypass_ssl_verify, settings, existing) ==
    IF bypass_ssl_verify = None
    THEN Used(bypass_ssl_verify, ~settings.use_ssl_verification,
              settings.certificate_path,
              configure_ssl_verification(settings.certificate_path,
                                         ~settings.use_ssl_verification, existing))
    ELSE Used(bypass_ssl_verify, bypass_ssl_verify[1],
              find_netskope_certificate(existing),
              configure_ssl_verification(find_netskope_certificate(existing),
                                         bypass_ssl_verify[1], existing))

\* fetch_jira_issues: the verify argument of its requests.post
SearchVerification(settings, existing) ==
    Used(None, ~settings.use_ssl_verification, settings.certificate_path,
         configure_ssl_verification(settings.certificate_path,
                                    ~settings.use_ssl_verification, existing))

\* explored request bodies and file systems
RequestPaths == {None, Some(""), Some(CaBundle), Some(MissingFile)}
SslUpdates ==
    {SSLSettingsUpdate(use, path) : use \in BOOLEAN, path \in RequestPaths}
FileSystems == {{CaBundle}, {CaBundle, NetskopeCert}}
\* os.environ.get("SSL_CERT_PATH", find_netskope_certificate())
EnvCertPaths(existing) ==
    {find_netskope_certificate(existing), Some(CaBundle), Some("")}

SslIdle ==
    /\ endpoints_SSL_SETTINGS = SslSettings(TRUE, None, Some(0))
    /\ parser_SSL_SETTINGS = SslSettings(TRUE, None, Some(0))
    /\ files = {}
    /\ ssl_clock = 0
    /\ ssl_op = "none"
    /\ ssl_reply = SslReply(200, SslSettings(TRUE, None, Some(0)))
    /\ connect_used = NotUsed
    /\ search_used = NotUsed

SchedulerIdle ==
    /\ sched_pc = "setup"
    /\ minutes = 0
    /\ polls = 0
    /\ next_run = <<0, 0, 0>>
    /\ calls = <<>>
    /\ stop_cause = "none"

(***************************************************************************)
(* Spec: one call of detect_actual_dates on any explored record            *)
(* SpecDuration: one call of each calculate_duration on any explored pair  *)
(***************************************************************************)
DetectIdle ==
    /\ jira_data = [kind |-> "none", changelog |-> NoChangelog]
    /\ status_changes = <<>>
    /\ result = Returned(None, None, None, None)

ExtractIdle ==
    /\ fields = NoFields
    /\ details = ExtractPending

WarehouseIdle ==
    /\ table = <<>>
    /\ clock = 0
    /\ endpoint = "none"
    /\ fetched = <<>>
    /\ source = <<>>
    /\ response = UpsertResult(0, 0, 0, <<>>)

DurationIdle ==
    /\ start_date = None
    /\ end_date = None
    /\ parser_duration = Pending
    /\ utils_duration = Pending
    /\ later_duration = Pending

Init ==
    /\ pc = "ready"
    /\ \/ \E n \in 0..MaxEvents : jira_data \in EventRecords(n)
       \/ jira_data \in StructRecords
    /\ status_changes = <<>>
    /\ result = Returned(None, None, None, None)
    /\ DurationIdle
    /\ ExtractIdle
    /\ WarehouseIdle
    /\ SslIdle
    /\ SchedulerIdle

DetectActualDates ==
    /\ pc = "ready"
    /\ pc' = "done"
    /\ status_changes' = StatusChangesOf(jira_data)
    /\ result' = detect_actual_dates(jira_data)
    /\ UNCHANGED <<jira_data, duration_vars, extract_vars, warehouse_vars, ssl_vars,
                   scheduler_vars>>

Next == DetectActualDates

Spec == Init /\ [][Next]_vars

InitDuration ==
    /\ pc = "ready"
    /\ DetectIdle
    /\ start_date \in DateStrings
    /\ end_date \in DateStrings
    /\ parser_duration = Pending
    /\ utils_duration = Pending
    /\ later_duration = Pending
    /\ ExtractIdle
    /\ WarehouseIdle
    /\ SslIdle
    /\ SchedulerIdle

ParserCalculateDuration ==
    /\ parser_duration = Pending
    /\ parser_duration' = calculate_duration(start_date, end_date)
    /\ UNCHANGED <<ssl_vars, scheduler_vars>>
    /\ UNCHANGED <<detect_vars, extract_vars, warehouse_vars, start_date, end_date, utils_duration, later_duration>>

UtilsCalculateDuration ==
    /\ utils_duration = Pending
    /\ utils_duration' = utils_calculate_duration(start_date, end_date)
    /\ UNCHANGED <<ssl_vars, scheduler_vars>>
    /\ UNCHANGED <<detect_vars, extract_vars, warehouse_vars, start_date, end_date, parser_duration, later_duration>>

\* the parser copy called again with end one calendar day later
ParserCalculateDurationLater ==
    /\ later_duration = Pending
    /\ later_duration' = calculate_duration(start_date, OneDayLater(end_date))
    /\ UNCHANGED <<ssl_vars, scheduler_vars>>
    /\ UNCHANGED <<detect_vars, extract_vars, warehouse_vars, start_date, end_date, parser_duration, utils_duration>>

NextDuration ==
    \/ ParserCalculateDuration
    \/ UtilsCalculateDuration
    \/ ParserCalculateDurationLater

SpecDuration == InitDuration /\ [][NextDuration]_vars

(***************************************************************************)
(* SpecExtract: one call of extract_jira_data on any explored record       *)
(***************************************************************************)
InitExtract ==
    /\ pc = "ready"
    /\ \/ jira_data \in DegenerateRecords
       \/ \E n \in 0..MaxExtractEvents : jira_data \in EventRecords(n)
    /\ fields \in FieldsOf(jira_data)
    /\ status_changes = <<>>
    /\ result = Returned(None, None, None, None)
    /\ details = ExtractPending
    /\ DurationIdle
    /\ WarehouseIdle
    /\ SslIdle
    /\ SchedulerIdle

ExtractJiraData ==
    /\ pc = "ready"
    /\ pc' = "done"
    /\ details' = extract_jira_data(jira_data, fields)
    /\ UNCHANGED <<jira_data, status_changes, result, fields, duration_vars,
                   warehouse_vars, ssl_vars, scheduler_vars>>

NextExtract == ExtractJiraData

SpecExtract == InitExtract /\ [][NextExtract]_vars

(***************************************************************************)
(* SpecWarehouse: up to MaxCalls calls of the three endpoints, one after   *)
(* the other, on a table that starts empty                                 *)
(***************************************************************************)
InitWarehouse ==
    /\ pc = "ready"
    /\ DetectIdle
    /\ DurationIdle
    /\ ExtractIdle
    /\ WarehouseIdle
    /\ SslIdle
    /\ SchedulerIdle

UpdateStatus ==
    /\ clock < MaxCalls
    /\ \E search \in SearchResults, outcome \in UpsertOutcomes, counted \in BOOLEAN :
          \E call \in {update_status(table, search, clock + 1, outcome, counted)} :
              /\ table' = call.table
              /\ source' = call.rows
              /\ response' = call.result
    /\ clock' = clock + 1
    /\ endpoint' = "update-status"
    /\ fetched' = <<>>
    /\ UNCHANGED <<detect_vars, duration_vars, extract_vars, ssl_vars, scheduler_vars>>

CollectDetails(name, issue_keys) ==
    /\ clock < MaxCalls
    /\ \E query_fails \in BOOLEAN, outcome \in UpsertOutcomes :
       \E connects \in [DOMAIN issue_keys -> ConnectOutcomes] :
          \E call \in {collect_details(table, issue_keys, query_fails, connects,
                                        clock + 1, outcome)} :
              /\ table' = call.table
              /\ source' = call.rows
              /\ response' = call.result
              /\ fetched' = call.processed
    /\ clock' = clock + 1
    /\ endpoint' = name
    /\ UNCHANGED <<detect_vars, duration_vars, extract_vars, ssl_vars, scheduler_vars>>

CollectClosedDetails == CollectDetails("collect-closed-details", ClosedIssueKeys(table))

CollectAcDetails == CollectDetails("collect-ac-details", AcIssueKeys(table))

NextWarehouse == UpdateStatus \/ CollectClosedDetails \/ CollectAcDetails

SpecWarehouse == InitWarehouse /\ [][NextWarehouse]_vars

(***************************************************************************)
(* SpecSsl: up to MaxSslCalls calls of POST and GET /api/settings/ssl,     *)
(* connect_to_jira_api and fetch_jira_issues, one after the other. The two *)
(* modules each hold a dict of their own: endpoints.py builds one, and     *)
(* parser.py builds its default because its import of SSL_SETTINGS from    *)
(* jira_logger.main, a module that is still being loaded whenever          *)
(* parser.py is, fails.                                                    *)
(***************************************************************************)
InitSsl ==
    /\ pc = "ready"
    /\ DetectIdle
    /\ DurationIdle
    /\ ExtractIdle
    /\ WarehouseIdle
    /\ SchedulerIdle
    /\ files \in FileSystems
    /\ \E certificate_path \in EnvCertPaths(files) :
          /\ endpoints_SSL_SETTINGS = SslSettings(TRUE, certificate_path, Some(0))
          /\ parser_SSL_SETTINGS = SslSettings(TRUE, certificate_path, Some(0))
    /\ ssl_clock = 0
    /\ ssl_op = "none"
    /\ ssl_reply = SslReply(200, endpoints_SSL_SETTINGS)
    /\ connect_used = NotUsed
    /\ search_used = NotUsed

SslFrame ==
    /\ ssl_clock < MaxSslCalls
    /\ ssl_clock' = ssl_clock + 1
    /\ UNCHANGED <<detect_vars, duration_vars, extract_vars, warehouse_vars,
                   scheduler_vars, files, parser_SSL_SETTINGS>>

UpdateSslSettings ==
    /\ SslFrame
    /\ ssl_op' = "update_ssl_settings"
    /\ \E update \in SslUpdates :
          \E updated \in {update_ssl_settings(endpoints_SSL_SETTINGS, update,
                                               files, ssl_clock + 1)} :
              /\ endpoints_SSL_SETTINGS' = updated.settings
              /\ ssl_reply' = updated.reply
    /\ UNCHANGED <<connect_used, search_used>>

GetSslSettings ==
    /\ SslFrame
    /\ ssl_op' = "get_ssl_settings"
    /\ ssl_reply' = get_ssl_settings(endpoints_SSL_SETTINGS)
    /\ UNCHANGED <<endpoints_SSL_SETTINGS, connect_used, search_used>>

ConnectToJiraApi ==
    /\ SslFrame
    /\ ssl_op' = "connect_to_jira_api"
    /\ \E bypass_ssl_verify \in {None, Some(TRUE), Some(FALSE)} :
          connect_used' = ConnectVerification(bypass_ssl_verify,
                                              parser_SSL_SETTINGS, files)
    /\ UNCHANGED <<endpoints_SSL_SETTINGS, ssl_reply, search_used>>

FetchJiraIssues ==
    /\ SslFrame
    /\ ssl_op' = "fetch_jira_issues"
    /\ search_used' = SearchVerification(endpoints_SSL_SETTINGS, files)
    /\ UNCHANGED <<endpoints_SSL_SETTINGS, ssl_reply, connect_used>>

NextSsl ==
    \/ UpdateSslSettings
    \/ GetSslSettings
    \/ ConnectToJiraApi
    \/ FetchJiraIssues

SpecSsl == InitSsl /\ [][NextSsl]_vars

(***************************************************************************)
(* The scheduler (core/scheduler.py). Of the schedule library it uses      *)
(* every().day.at(time).do(job), which plans the job for the next moment   *)
(* the clock shows that time, and run_pending(), which runs the jobs whose *)
(* next_run has come, earliest first, and plans each for the day after.    *)
(***************************************************************************)
DayMinutes == 24 * 60

\* the three jobs of setup_schedule, `at` in minutes after midnight
Jobs ==
    <<[endpoint |-> "api/update-status", name |-> "Update Status", at |-> 60],
      [endpoint |-> "api/collect-closed-details", name |-> "Collect Closed Details",
       at |-> 90],
      [endpoint |-> "api/collect-ac-details", name |-> "Collect AC Details",
       at |-> 105]>>

\* every().day.at(...): today if the time is still to come, else tomorrow
NextRunAt(at, current) ==
    IF current % DayMinutes < at
    THEN current - (current % DayMinutes) + at
    ELSE current - (current % DayMinutes) + DayMinutes + at

\* what requests.post and the handling of its response do in one call: a
\* 200 answer without or with errors in its body, another status, an
\* exception of requests.post, an exception of response.json()
CallOutcomes == {"200", "200 with errors", "500", "ConnectionError", "JSONDecodeError"}

Called(path, name, outcome, logged, exception) ==
    [endpoint |-> path, name |-> name, outcome |-> outcome, logged |-> logged,
     exc |-> exception]
\* the body of call_api_endpoint without its try
call_api_endpoint_unguarded(path, name, outcome) ==
    CASE outcome = "200" ->
             Called(path, name, outcome, "completed successfully", "none")
      [] outcome = "200 with errors" ->
             Called(path, name, outcome, "completed successfully, API Error", "none")
      [] outcome = "500" ->
             Called(path, name, outcome, "API call failed with status code", "none")
      [] OTHER -> Called(path, name, outcome, "", outcome)
\* call_api_endpoint: `except Exception` logs whatever the body raised
call_api_endpoint(path, name, outcome) ==
    CASE outcome = "200" ->
             Called(path, name, outcome, "completed successfully", "none")
      [] outcome = "200 with errors" ->
             Called(path, name, outcome, "completed successfully, API Error", "none")
      [] outcome = "500" ->
             Called(path, name, outcome, "API call failed with status code", "none")
      [] OTHER -> Called(path, name, outcome, "Error calling endpoint", "none")

\* one entry of calls: the call and where run_scheduler made it from
Invoked(job, trigger, outcome) ==
    [trigger |-> trigger, call |-> call_api_endpoint(job.endpoint, job.name, outcome)]

\* run_pending: the jobs that are due, earliest next_run first
Due(planned, current) == {k \in DOMAIN Jobs : planned[k] <= current}
DueOrder(planned, current) ==
    CHOOSE order \in [1..Cardinality(Due(planned, current)) -> Due(planned, current)] :
        \A i \in DOMAIN order : \A j \in DOMAIN order :
            i < j => planned[order[i]] < planned[order[j]]
\* the calls run_pending makes up to the first that raises
RunUntilRaise(invoked) ==
    SelectSeq([i \in DOMAIN invoked |->
                  [at |-> i, entry |-> invoked[i]]],
              LAMBDA e : \A h \in 1..(e.at - 1) : invoked[h].call.exc = "none")
SomeRaised(invoked) == \E i \in DOMAIN invoked : invoked[i].call.exc # "none"

\* explored starting times: the minute before each of the three jobs is due
StartMinutes == {59, 89, 104}

(***************************************************************************)
(* SpecScheduler: run_scheduler from its start through MaxPolls iterations *)
(* of its loop. The process runs its statements one after the other and    *)
(* every call of requests.post returns or raises, hence the weak fairness  *)
(* of its steps; Ctrl+C may come at any time and is not fair.              *)
(***************************************************************************)
InitScheduler ==
    /\ pc = "ready"
    /\ DetectIdle
    /\ DurationIdle
    /\ ExtractIdle
    /\ WarehouseIdle
    /\ SslIdle
    /\ sched_pc = "setup"
    /\ minutes \in StartMinutes
    /\ polls = 0
    /\ next_run = <<0, 0, 0>>
    /\ calls = <<>>
    /\ stop_cause = "none"

SchedulerFrame ==
    UNCHANGED <<detect_vars, duration_vars, extract_vars, warehouse_vars, ssl_vars>>

SetupSchedule ==
    /\ sched_pc = "setup"
    /\ next_run' = [k \in DOMAIN Jobs |-> NextRunAt(Jobs[k].at, minutes)]
    /\ sched_pc' = "update_status_job"
    /\ UNCHANGED <<minutes, polls, calls, stop_cause>>
    /\ SchedulerFrame

\* run_scheduler after a sequence of calls: on to the next statement, or to
\* its `except Exception` if one of them raised
Continue(invoked, then_pc) ==
    /\ calls' = calls \o [i \in DOMAIN RunUntilRaise(invoked) |->
                              RunUntilRaise(invoked)[i].entry]
    /\ sched_pc' = IF SomeRaised(invoked) THEN "stopped" ELSE then_pc
    /\ stop_cause' = IF SomeRaised(invoked) THEN "Exception" ELSE stop_cause

StartupJob(k, at_pc, then_pc) ==
    /\ sched_pc = at_pc
    /\ \E outcome \in CallOutcomes :
          Continue(<<Invoked(Jobs[k], "startup", outcome)>>, then_pc)
    /\ UNCHANGED <<minutes, polls, next_run>>
    /\ SchedulerFrame

UpdateStatusJob == StartupJob(1, "update_status_job", "collect_closed_details_job")
CollectClosedDetailsJob ==
    StartupJob(2, "collect_closed_details_job", "collect_ac_details_job")
CollectAcDetailsJob == StartupJob(3, "collect_ac_details_job", "run_pending")

RunPending ==
    /\ sched_pc = "run_pending"
    /\ \E outcomes \in [DOMAIN DueOrder(next_run, minutes) -> CallOutcomes] :
          Continue([i \in DOMAIN DueOrder(next_run, minutes) |->
                       Invoked(Jobs[DueOrder(next_run, minutes)[i]], "scheduled",
                               outcomes[i])],
                   "sleep")
    /\ next_run' = [k \in DOMAIN Jobs |->
                       IF k \in Due(next_run, minutes)
                       THEN NextRunAt(Jobs[k].at, minutes)
                       ELSE next_run[k]]
    /\ UNCHANGED <<minutes, polls>>
    /\ SchedulerFrame

Sleep ==
    /\ sched_pc = "sleep"
    /\ polls < MaxPolls
    /\ minutes' = minutes + 1
    /\ polls' = polls + 1
    /\ sched_pc' = "run_pending"
    /\ UNCHANGED <<next_run, calls, stop_cause>>
    /\ SchedulerFrame

\* Ctrl+C: KeyboardInterrupt is no Exception, so it passes through
\* call_api_endpoint to the handler of run_scheduler
KeyboardInterrupt ==
    /\ sched_pc # "stopped"
    /\ sched_pc' = "stopped"
    /\ stop_cause' = "KeyboardInterrupt"
    /\ UNCHANGED <<minutes, polls, next_run, calls>>
    /\ SchedulerFrame

SchedulerStep ==
    \/ SetupSchedule
    \/ UpdateStatusJob
    \/ CollectClosedDetailsJob
    \/ CollectAcDetailsJob
    \/ RunPending
    \/ Sleep

NextScheduler == SchedulerStep \/ KeyboardInterrupt

SpecScheduler == InitScheduler /\ [][NextScheduler]_vars /\ WF_vars(SchedulerStep)

(***************************************************************************)
(* Vocabulary of the properties: the input and the outcome of the call,    *)
(* described without the operators that compute the result                 *)
(***************************************************************************)
Max(S) == CHOOSE m \in S : \A n \in S : n <= m

\* the call has returned a result (it did not raise)
Returns == pc = "done" /\ result.exc = "none"

StartSet == {DEVELOPMENT_STATUSES.start[i] : i \in DOMAIN DEVELOPMENT_STATUSES.start}
FinishSet == {DEVELOPMENT_STATUSES.finish[i] : i \in DOMAIN DEVELOPMENT_STATUSES.finish}

\* positions of the events each strategy looks for
StartMatches == {i \in 1..Len(status_changes) : status_changes[i].to \in StartSet}
PlanningMatches ==
    {i \in 1..Len(status_changes) :
        /\ status_changes[i].to = "In Progress"
        /\ \E j \in 1..Len(status_changes) :
              j < i /\ status_changes[j].to = "Ready for planning"}
FinishMatches == {i \in 1..Len(status_changes) : status_changes[i].to \in FinishSet}
DeployedACMatches == {i \in 1..Len(status_changes) : status_changes[i].to = "Deployed AC"}

CreatedAt(i) == status_changes[i].created

\* the value each strategy of a cascade is specified to produce
StartValue(k) ==
    CASE k = 1 -> IF StartMatches = {} THEN None ELSE CreatedAt(Min(StartMatches))
      [] k = 2 -> IF PlanningMatches = {} THEN None ELSE CreatedAt(Min(PlanningMatches))
      [] k = 3 -> IF status_changes = <<>> THEN None ELSE CreatedAt(1)
FinishValue(k) ==
    CASE k = 1 -> IF FinishMatches = {} THEN None ELSE CreatedAt(Max(FinishMatches))
      [] k = 2 -> IF DeployedACMatches = {} THEN None ELSE CreatedAt(Max(DeployedACMatches))
      [] k = 3 -> IF status_changes = <<>> THEN None ELSE CreatedAt(Len(status_changes))

\* the histories and items of the raw record, wherever they are well formed
Histories ==
    IF /\ jira_data.kind = "dict"
       /\ jira_data.changelog.kind = "dict"
       /\ jira_data.changelog.histories.kind = "list"
    THEN jira_data.changelog.histories.list
    ELSE <<>>
ItemsAt(h) ==
    IF Histories[h].kind = "dict" /\ Histories[h].items.kind = "list"
    THEN Histories[h].items.list
    ELSE <<>>
IsStatusItem(h, i) == ItemsAt(h)[i].kind = "dict" /\ ItemsAt(h)[i].field = "status"
StatusPositions ==
    UNION {{<<h, i>> : i \in {j \in 1..Len(ItemsAt(h)) : IsStatusItem(h, j)}} :
              h \in 1..Len(Histories)}
NotAfter(p, q) == p[1] < q[1] \/ (p[1] = q[1] /\ p[2] <= q[2])
Rank(p) == Cardinality({q \in StatusPositions : NotAfter(q, p)})
EventAt(p) ==
    [created |-> Histories[p[1]].created,
     from    |-> ItemsAt(p[1])[p[2]].fromString,
     to      |-> ItemsAt(p[1])[p[2]].toString]

(***************************************************************************)
(* Properties of detect_actual_dates                                       *)
(***************************************************************************)

\* C1: whenever the extracted status-change sequence is empty, also for a
\* non-empty record without changelog, histories or status item, the result
\* has start, finish, start_method and finish_method all absent.
C1_EmptySequenceAllAbsent ==
    (Returns /\ status_changes = <<>>)
        => /\ result.start = None
           /\ result.finish = None
           /\ result.start_method = None
           /\ result.finish_method = None

\* C2: in every result, start_method is present if and only if start is
\* present, and finish_method is present if and only if finish is present.
C2_MethodPresentIffDatePresent ==
    Returns
        => /\ (result.start_method # None) <=> (result.start # None)
           /\ (result.finish_method # None) <=> (result.finish # None)

\* C3 as stated: whenever some event has to_status in the start set, start is
\* the timestamp of the earliest such event and start_method is
\* 'First development status'.
C3_StartPriorityAsStated ==
    (Returns /\ StartMatches # {})
        => /\ result.start = CreatedAt(Min(StartMatches))
           /\ result.start_method = Some("First development status")

\* C3 amended: whenever some event has to_status in the start set and the
\* earliest such event carries a timestamp, start is that timestamp and
\* start_method is 'First development status', whatever the other events are.
C3_StartPriority ==
    (Returns /\ StartMatches # {} /\ CreatedAt(Min(StartMatches)) # None)
        => /\ result.start = CreatedAt(Min(StartMatches))
           /\ result.start_method = Some("First development status")

\* a start-set event that is not the first event and follows the planning
\* pattern has been selected as start
C3_Witness ==
    /\ Returns
    /\ Len(status_changes) = 3
    /\ status_changes[1].to = "Ready for planning"
    /\ status_changes[2].to = "Code review"
    /\ status_changes[3].to = "In Progress"
    /\ CreatedAt(1) # None /\ CreatedAt(2) # None /\ CreatedAt(3) # None
    /\ CreatedAt(1) # CreatedAt(2)
    /\ result.start = CreatedAt(2)
    /\ result.start_method = Some("First development status")

\* C4 as stated: whenever some event has to_status in the finish set, finish
\* is the timestamp of the latest such event and finish_method is
\* 'Last development finish status'.
C4_FinishStrategy1AsStated ==
    (Returns /\ FinishMatches # {})
        => /\ result.finish = CreatedAt(Max(FinishMatches))
           /\ result.finish_method = Some("Last development finish status")

\* C4 amended: whenever some event has to_status in the finish set and the
\* latest such event carries a timestamp, finish is that timestamp and
\* finish_method is 'Last development finish status'.
C4_FinishStrategy1 ==
    (Returns /\ FinishMatches # {} /\ CreatedAt(Max(FinishMatches)) # None)
        => /\ result.finish = CreatedAt(Max(FinishMatches))
           /\ result.finish_method = Some("Last development finish status")

\* the later of two finish-set events, followed by another event, has been
\* selected as finish
C4_Witness ==
    /\ Returns
    /\ Len(status_changes) = 3
    /\ status_changes[1].to = "Deployed AC"
    /\ status_changes[2].to = "Ready for deployment"
    /\ status_changes[3].to = "Closed"
    /\ CreatedAt(1) # None /\ CreatedAt(2) # None /\ CreatedAt(3) # None
    /\ CreatedAt(1) # CreatedAt(2)
    /\ result.finish = CreatedAt(2)
    /\ result.finish_method = Some("Last development finish status")

\* C5 as stated: for a non-empty sequence with no start-set event and no
\* 'In Progress' after 'Ready for planning', start is the first event's
\* timestamp and start_method is 'First status change'; with no finish-set
\* event and no 'Deployed AC' event, finish is the last event's timestamp and
\* finish_method is 'Last status change'.
C5_FallbackAsStated ==
    /\ (Returns /\ status_changes # <<>> /\ StartMatches = {} /\ PlanningMatches = {})
           => /\ result.start = CreatedAt(1)
              /\ result.start_method = Some("First status change")
    /\ (Returns /\ status_changes # <<>> /\ FinishMatches = {} /\ DeployedACMatches = {})
           => /\ result.finish = CreatedAt(Len(status_changes))
              /\ result.finish_method = Some("Last status change")

\* C5 amended: the same, for a sequence whose first event (for start) or last
\* event (for finish) carries a timestamp.
C5_Fallback ==
    /\ (/\ Returns /\ status_changes # <<>>
        /\ StartMatches = {} /\ PlanningMatches = {}
        /\ CreatedAt(1) # None)
           => /\ result.start = CreatedAt(1)
              /\ result.start_method = Some("First status change")
    /\ (/\ Returns /\ status_changes # <<>>
        /\ FinishMatches = {} /\ DeployedACMatches = {}
        /\ CreatedAt(Len(status_changes)) # None)
           => /\ result.finish = CreatedAt(Len(status_changes))
              /\ result.finish_method = Some("Last status change")

\* both fallbacks have acted on a sequence of two events with different
\* timestamps
C5_Witness ==
    /\ Returns
    /\ Len(status_changes) = 2
    /\ StartMatches = {} /\ FinishMatches = {}
    /\ CreatedAt(1) # None /\ CreatedAt(2) # None /\ CreatedAt(1) # CreatedAt(2)
    /\ result.start = CreatedAt(1)
    /\ result.start_method = Some("First status change")
    /\ result.finish = CreatedAt(2)
    /\ result.finish_method = Some("Last status change")

\* C6 as stated: when strategy 1 yields no value, start is the timestamp of
\* the earliest 'In Progress' event that has a strictly earlier 'Ready for
\* planning' event and start_method is "First 'In Progress' after planning";
\* no other event is ever selected under that label.
C6_StartStrategy2AsStated ==
    /\ (Returns /\ StartValue(1) = None /\ PlanningMatches # {})
           => /\ result.start = CreatedAt(Min(PlanningMatches))
              /\ result.start_method = Some("First 'In Progress' after planning")
    /\ (Returns /\ result.start_method = Some("First 'In Progress' after planning"))
           => /\ PlanningMatches # {}
              /\ result.start = CreatedAt(Min(PlanningMatches))

\* C6 amended: when strategy 1 yields no value and the earliest 'In Progress'
\* event that has a strictly earlier 'Ready for planning' event carries a
\* timestamp, start is that timestamp and start_method is "First 'In
\* Progress' after planning"; no other event is ever selected under that
\* label.
C6_StartStrategy2 ==
    /\ (/\ Returns /\ StartValue(1) = None /\ PlanningMatches # {}
        /\ CreatedAt(Min(PlanningMatches)) # None)
           => /\ result.start = CreatedAt(Min(PlanningMatches))
              /\ result.start_method = Some("First 'In Progress' after planning")
    /\ (Returns /\ result.start_method = Some("First 'In Progress' after planning"))
           => /\ PlanningMatches # {}
              /\ result.start = CreatedAt(Min(PlanningMatches))

\* strategy 2 has selected the second of two 'In Progress' events: the first
\* one has no earlier 'Ready for planning' event
C6_Witness ==
    /\ Returns
    /\ Len(status_changes) = 3
    /\ status_changes[1].to = "In Progress"
    /\ status_changes[2].to = "Ready for planning"
    /\ status_changes[3].to = "In Progress"
    /\ CreatedAt(2) # None /\ CreatedAt(3) # None /\ CreatedAt(2) # CreatedAt(3)
    /\ result.start = CreatedAt(3)
    /\ result.start_method = Some("First 'In Progress' after planning")

\* C7: the method recorded for start (for finish) is the label of the first
\* strategy of the cascade that produced a value, never the label of a
\* strategy that produced none.
C7_LabelOfSelectedStrategy ==
    Returns
        => \A k \in 1..3 :
              /\ result.start_method = Some(StartLabels[k])
                    => /\ StartValue(k) # None
                       /\ \A j \in 1..(k - 1) : StartValue(j) = None
              /\ result.finish_method = Some(FinishLabels[k])
                    => /\ FinishValue(k) # None
                       /\ \A j \in 1..(k - 1) : FinishValue(j) = None

\* C8: the extraction yields exactly one event per item whose field is
\* 'status', over every item of every history entry, in the order of the
\* source, each event carrying its history's timestamp and its item's
\* statuses; items of another field yield nothing.
C8_OneEventPerStatusItemInOrder ==
    Returns
        => /\ Len(status_changes) = Cardinality(StatusPositions)
           /\ \A p \in StatusPositions : status_changes[Rank(p)] = EventAt(p)

\* a history with two status items and an item of another field, and a
\* history without status item, have been extracted
C8_Witness ==
    /\ Returns
    /\ Len(Histories) = 2
    /\ Len(ItemsAt(1)) = 3
    /\ Cardinality({p \in StatusPositions : p[1] = 1}) = 2
    /\ Len(status_changes) = 2
    /\ status_changes[1].to # status_changes[2].to

\* C9: detect_actual_dates never raises, whatever is missing, null or
\* malformed in the raw record.
C9_NeverRaises == pc = "done" => result.exc = "none"

(***************************************************************************)
(* Properties of calculate_duration                                        *)
(***************************************************************************)
\* both arguments parse and can be compared, and start is not after end
ParsableInOrder ==
    /\ start_date # None /\ end_date # None
    /\ start_date[1].form = "iso" /\ end_date[1].form = "iso"
    /\ (start_date[1].zone = "") <=> (end_date[1].zone = "")
    /\ \/ start_date[1].day < end_date[1].day
       \/ /\ start_date[1].day = end_date[1].day
          /\ start_date[1].tod <= end_date[1].tod

\* Monday-to-Friday calendar dates from start's date through end's date
WeekdayDates ==
    {d \in start_date[1].day .. end_date[1].day : d % 7 < 5}

\* C10: for parsable timestamps with start not after end, both copies of
\* calculate_duration return the number of Monday-to-Friday calendar dates
\* from the date of start through the date of end inclusive, whatever the
\* times of day.
C10_WeekdayDatesInclusive ==
    ParsableInOrder
        => /\ parser_duration # Pending
                  => parser_duration = DurationReturned(Some(Cardinality(WeekdayDates)))
           /\ utils_duration # Pending
                  => utils_duration = DurationReturned(Some(Cardinality(WeekdayDates)))

\* both arguments parse and can be compared, and start is strictly after end
ParsableReversed ==
    /\ start_date # None /\ end_date # None
    /\ start_date[1].form = "iso" /\ end_date[1].form = "iso"
    /\ (start_date[1].zone = "") <=> (end_date[1].zone = "")
    /\ \/ start_date[1].day > end_date[1].day
       \/ /\ start_date[1].day = end_date[1].day
          /\ start_date[1].tod > end_date[1].tod

ParsableSame ==
    /\ start_date # None
    /\ start_date[1].form = "iso"
    /\ end_date = start_date

\* C12: for a parsable timestamp x, calculate_duration(x, x) is 1 when x
\* falls on Monday to Friday and 0 when x falls on Saturday or Sunday, in both
\* copies.
C12_SameDayOneOrZero ==
    ParsableSame
        => LET expected == IF start_date[1].day % 7 \in 0..4 THEN 1 ELSE 0
           IN  /\ parser_duration # Pending
                     => parser_duration = DurationReturned(Some(expected))
               /\ utils_duration # Pending
                     => utils_duration = DurationReturned(Some(expected))

\* both copies have returned 0 for a Sunday given twice
C12_Witness ==
    /\ ParsableSame
    /\ start_date[1].day % 7 = 6
    /\ parser_duration = DurationReturned(Some(0))
    /\ utils_duration = DurationReturned(Some(0))

\* both arguments parse and can be compared
ParsableComparable ==
    /\ start_date # None /\ end_date # None
    /\ start_date[1].form = "iso" /\ end_date[1].form = "iso"
    /\ (start_date[1].zone = "") <=> (end_date[1].zone = "")

\* C13: for a fixed parsable start and a parsable end, the duration to end
\* plus one calendar day is at least the duration to end and exceeds it by at
\* most 1.
C13_MonotonicInEnd ==
    (ParsableComparable /\ parser_duration # Pending /\ later_duration # Pending)
        => /\ parser_duration.exc = "none" /\ parser_duration.value # None
           /\ later_duration.exc = "none" /\ later_duration.value # None
           /\ later_duration.value[1] >= parser_duration.value[1]
           /\ later_duration.value[1] <= parser_duration.value[1] + 1

\* Monday to Friday counts 5, and so does Monday to Saturday
C13_Witness ==
    /\ ParsableComparable
    /\ end_date[1].day % 7 = 4
    /\ parser_duration = DurationReturned(Some(5))
    /\ later_duration = DurationReturned(Some(5))

\* an argument that is None, the empty string, or no ISO-8601 timestamp
MissingOrUnparsable(date_str) == date_str = None \/ date_str[1].form # "iso"

\* C14: whenever either input is missing (None or empty) or fails to parse as
\* an ISO-8601 timestamp, parser.calculate_duration and
\* date_utils.calculate_duration return None and do not raise.
C14_AbsentOnMissingOrUnparsable ==
    (MissingOrUnparsable(start_date) \/ MissingOrUnparsable(end_date))
        => /\ parser_duration # Pending => parser_duration = DurationReturned(None)
           /\ utils_duration # Pending => utils_duration = DurationReturned(None)

\* both copies have returned None for an unparsable start and a parsable end
C14_Witness ==
    /\ start_date # None /\ start_date[1].form = "garbage"
    /\ end_date # None /\ end_date[1].form = "iso"
    /\ parser_duration = DurationReturned(None)
    /\ utils_duration = DurationReturned(None)

(***************************************************************************)
(* Properties of extract_jira_data                                         *)
(***************************************************************************)
\* C15: for every input record, however degenerate, extract_jira_data returns
\* normally with a well-formed result structure; it never raises and never
\* returns a bare None.
C15_ExtractTotal ==
    (pc = "done" /\ details # ExtractPending)
        => /\ details.exc = "none"
           /\ details.value # None

(***************************************************************************)
(* Properties of the endpoints and of the warehouse table                  *)
(***************************************************************************)
CollectEndpoints == {"collect-closed-details", "collect-ac-details"}

\* the pipeline returned a result without actual start, finish and duration
AllAbsent(extraction) ==
    /\ extraction.exc = "none"
    /\ extraction.value # None
    /\ extraction.value[1].Actual.start = None
    /\ extraction.value[1].Actual.finish = None
    /\ extraction.value[1].Actual.duration = None

SentFor(issue_key) == \E j \in DOMAIN source : source[j].issue_key = issue_key

\* C17: whenever the pipeline yields an all-absent result for an issue,
\* collect-closed-details and collect-ac-details report 'Could not extract
\* details for issue X' for it and send no details record for it to the
\* warehouse.
C17_AllAbsentReportedNotSent ==
    endpoint \in CollectEndpoints
        => \A i \in DOMAIN fetched :
              AllAbsent(fetched[i].details)
                  => /\ In(Error("Could not extract details for issue",
                                 fetched[i].issue_key), response.errors)
                     /\ ~SentFor(fetched[i].issue_key)

\* C18: after any sequence of update-status, collect-closed-details and
\* collect-ac-details calls the table holds at most one row per issue_key.
C18_OneRowPerIssueKey ==
    \A i \in DOMAIN table : \A j \in DOMAIN table :
        table[i].issue_key = table[j].issue_key => i = j

\* a second update-status has met both issues already stored
C18_Witness ==
    /\ endpoint = "update-status"
    /\ clock >= 2
    /\ Len(table) = 2
    /\ Len(source) = 2
    /\ response.updated_count = 2
    /\ response.inserted_count = 0

StatusColumns(row) ==
    <<row.issue_key, row.summary, row.status, row.project_ticket,
      row.planned_dev_start, row.planned_dev_finish, row.planned_duration,
      row.last_updated_at>>
DetailsColumns(row) ==
    <<row.actual_start, row.actual_finish, row.actual_duration,
      row.details_updated_at>>

\* a step of a collect endpoint inserts no row, keeps every column but the
\* four details columns, and changes only rows whose key it sent
DetailsFrame ==
    endpoint' \in CollectEndpoints
        => /\ Len(table') = Len(table)
           /\ \A i \in DOMAIN table :
                 /\ StatusColumns(table'[i]) = StatusColumns(table[i])
                 /\ (table'[i] # table[i])
                       => \E j \in DOMAIN source' :
                             source'[j].issue_key = table[i].issue_key

\* a step of update-status keeps the four details columns of every row
\* that exists
StatusFrame ==
    endpoint' = "update-status"
        => /\ Len(table') >= Len(table)
           /\ \A i \in DOMAIN table :
                 /\ table'[i].issue_key = table[i].issue_key
                 /\ DetailsColumns(table'[i]) = DetailsColumns(table[i])

\* C19: update_issue_details changes only actual_start, actual_finish,
\* actual_duration and details_updated_at, of rows whose issue_key it was
\* given; it inserts no row and leaves every other column alone.
\* update_issues_status never changes those four columns of an existing row.
C19_UpsertFrames == [][DetailsFrame /\ StatusFrame]_vars

\* a row whose details were collected has since been moved back to
\* 'in progress' by update-status, and a row of the other issue still waits
\* for its details
C19_Witness ==
    /\ endpoint = "update-status"
    /\ Len(table) = 2
    /\ \E i \in DOMAIN table :
          /\ table[i].status = "in progress"
          /\ table[i].actual_duration # None
          /\ table[i].details_updated_at # None
          /\ table[i].details_updated_at # table[i].last_updated_at
    /\ \E i \in DOMAIN table :
          /\ table[i].actual_start = None
          /\ table[i].details_updated_at = None

\* C20: every row update-status writes carries the planned_duration that
\* calculate_duration gives for its planned dates.
C20_PlannedDurationWritten ==
    endpoint = "update-status"
        => /\ \A j \in DOMAIN source :
                 source[j].planned_duration =
                     calculate_duration(source[j].planned_dev_start,
                                        source[j].planned_dev_finish).value
           /\ \A i \in DOMAIN table :
                 table[i].last_updated_at = Some(clock)
                     => table[i].planned_duration =
                            calculate_duration(table[i].planned_dev_start,
                                               table[i].planned_dev_finish).value

ClosedStatuses == {"closed", "deployed pd"}
Complete(row) ==
    /\ row.actual_start # None
    /\ row.actual_finish # None
    /\ row.actual_duration # None
FetchedKeys == {fetched[i].issue_key : i \in DOMAIN fetched}

\* every issue a collect-closed-details step fetches had, when the step
\* began, a row in a closed status with a NULL among the three columns
FetchesOnlyIncompleteClosed ==
    endpoint' = "collect-closed-details"
        => \A k \in FetchedKeys' :
              \E i \in DOMAIN table :
                  /\ table[i].issue_key = k
                  /\ table[i].status \in ClosedStatuses
                  /\ ~Complete(table[i])

\* a complete row in a closed status is not fetched by a
\* collect-closed-details step, and stays complete over any step of any
\* endpoint that leaves its status as it is
CompleteClosedStays ==
    \A i \in DOMAIN table :
        (Complete(table[i]) /\ table[i].status \in ClosedStatuses)
            => /\ endpoint' = "collect-closed-details"
                     => table[i].issue_key \notin FetchedKeys'
               /\ table'[i].status = table[i].status => Complete(table'[i])

\* C23: collect-closed-details fetches only issues whose row is 'closed' or
\* 'deployed pd' with a NULL among actual_start, actual_finish and
\* actual_duration; an issue whose three values are stored is not fetched
\* again by collect-closed-details while update-status and
\* collect-ac-details leave its status unchanged.
C23_FetchesOnlyIncomplete ==
    [][FetchesOnlyIncompleteClosed /\ CompleteClosedStays]_vars

\* a collect-closed-details run that fetched the other issue and left alone
\* a closed row completed by an earlier run
C23_Witness ==
    /\ endpoint = "collect-closed-details"
    /\ fetched # <<>>
    /\ \E i \in DOMAIN table :
          /\ Complete(table[i])
          /\ table[i].status \in ClosedStatuses
          /\ table[i].details_updated_at # Some(clock)
          /\ table[i].issue_key \notin FetchedKeys

\* update_issue_details reports len(issues) as updated_count unless one of
\* its jobs failed: rows were sent and fewer are reported
UpdateFailed == source # <<>> /\ response.updated_count < Len(source)

\* C24: when update_issue_details fails in collect-closed-details or
\* collect-ac-details, the response has error_count >= 1, holds the message
\* of the warehouse error in errors, and has updated_count 0.
C24_WarehouseFailureReported ==
    (endpoint \in CollectEndpoints /\ UpdateFailed)
        => /\ response.error_count >= 1
           /\ In(WarehouseError, response.errors)
           /\ response.updated_count = 0

KeysOf(processed) == [i \in DOMAIN processed |-> processed[i].issue_key]
\* the warehouse query raised: the handler's outer except answered
QueryFailed(reply, processed) ==
    reply.errors = <<EndpointError>> /\ processed = <<>>
\* details records sent plus error strings reported for one issue key
Contributions(issue_key, rows, errors) ==
    Cardinality({j \in DOMAIN rows : rows[j].issue_key = issue_key})
    + Cardinality({j \in DOMAIN errors : errors[j].issue_key = issue_key})

\* a step of a collect endpoint goes through every key its query returned
ProcessesEveryKey ==
    /\ endpoint' = "collect-closed-details"
           => \/ QueryFailed(response', fetched')
              \/ KeysOf(fetched') = ClosedIssueKeys(table)
    /\ endpoint' = "collect-ac-details"
           => \/ QueryFailed(response', fetched')
              \/ KeysOf(fetched') = AcIssueKeys(table)
OneContributionEach ==
    endpoint' \in CollectEndpoints
        => /\ \A i \in DOMAIN fetched' :
                 Contributions(fetched'[i].issue_key, source', response'.errors) = 1
           /\ response'.error_count = Len(response'.errors)

\* C25: in collect-closed-details and collect-ac-details every issue key
\* returned by the warehouse query contributes exactly one details record or
\* one error string, a failure on one issue does not stop the processing of
\* the issues after it, and error_count equals the length of errors in
\* every response.
C25_OneRecordOrErrorPerIssue == [][ProcessesEveryKey /\ OneContributionEach]_vars

\* the first of two issues failed and the second one still gave a record
C25_Witness ==
    /\ endpoint \in CollectEndpoints
    /\ Len(fetched) = 2
    /\ fetched[1].error # None
    /\ fetched[2].updated_issue # None
    /\ Len(source) = 1
    /\ response.error_count = 1

\* every event carries a timestamp and no event is earlier than the one
\* before it
NonDecreasing ==
    /\ \A i \in 1..Len(status_changes) : CreatedAt(i) # None
    /\ \A i \in 1..Len(status_changes) : \A j \in 1..Len(status_changes) :
           i < j => CreatedAt(i)[1] <= CreatedAt(j)[1]

\* C27: for every non-empty event sequence whose timestamps are
\* non-decreasing in sequence order, the start returned by
\* detect_actual_dates is not later than the finish it returns.
C27_StartNotAfterFinish ==
    (Returns /\ status_changes # <<>> /\ NonDecreasing)
        => /\ result.start # None
           /\ result.finish # None
           /\ result.start[1] <= result.finish[1]

AllTimestamped == \A i \in 1..Len(status_changes) : CreatedAt(i) # None

\* C28: with the shipped status sets and a timestamp on every event,
\* detect_actual_dates returns neither "First 'In Progress' after planning"
\* nor "Last 'Deployed AC' status": every event strategy 2 looks for is also
\* one strategy 1 of the same cascade looks for.
C28_Strategy2NeverSelected ==
    (Returns /\ AllTimestamped)
        => /\ result.start_method # Some("First 'In Progress' after planning")
           /\ result.finish_method # Some("Last 'Deployed AC' status")
           /\ PlanningMatches \subseteq StartMatches
           /\ DeployedACMatches \subseteq FinishMatches

\* both strategies 2 found their event, every event is timestamped, and
\* the labels of strategies 1 were returned
C28_Witness ==
    /\ Returns
    /\ AllTimestamped
    /\ PlanningMatches # {}
    /\ DeployedACMatches # {}
    /\ result.start_method = Some("First development status")
    /\ result.finish_method = Some("Last development finish status")

\* C29: on every pair of inputs, missing, unparsable, timezone-naive or
\* timezone-aware in any combination, parser.calculate_duration and
\* date_utils.calculate_duration return the same value or both return
\* absent, and neither raises.
C29_DurationCopiesEquivalent ==
    (parser_duration # Pending /\ utils_duration # Pending)
        => /\ parser_duration.exc = "none"
           /\ utils_duration.exc = "none"
           /\ parser_duration.value = utils_duration.value

(***************************************************************************)
(* Properties of the SSL settings                                          *)
(***************************************************************************)
\* last_updated of the endpoints' settings moves only when a POST succeeds
PostSucceeded == endpoints_SSL_SETTINGS.last_updated # Some(0)

\* C21: after a successful POST /api/settings/ssl, a per-issue fetch of
\* connect_to_jira_api called with bypass_ssl_verify=None uses the
\* use_ssl_verification and certificate_path the POST left, the settings
\* GET /api/settings/ssl returns and fetch_jira_issues uses.
C21_FetchUsesPostedSettings ==
    (/\ PostSucceeded
     /\ ssl_op = "connect_to_jira_api"
     /\ connect_used.bypass_ssl_verify = None)
        => /\ connect_used.bypass_verify
                  = ~endpoints_SSL_SETTINGS.use_ssl_verification
           /\ connect_used.cert_path = endpoints_SSL_SETTINGS.certificate_path
           /\ connect_used.verify
                  = SearchVerification(endpoints_SSL_SETTINGS, files).verify

\* what configure_ssl_verification returned to the last call that used it
VerifyIsFalseIffBypass(used) ==
    /\ (used.verify = "False") <=> used.bypass_verify
    /\ ~used.bypass_verify
          => \/ used.verify = "True"
             \/ used.cert_path # None /\ used.verify = used.cert_path[1]
             \/ find_netskope_certificate(files) # None
                   /\ used.verify = find_netskope_certificate(files)[1]

\* C22: configure_ssl_verification returns verify = False if and only if
\* bypass_verify is true; with bypass_verify false it returns a certificate
\* path or True, for every cert_path, None included.
C22_VerifyFalseIffBypass ==
    /\ ssl_op = "connect_to_jira_api" => VerifyIsFalseIffBypass(connect_used)
    /\ ssl_op = "fetch_jira_issues" => VerifyIsFalseIffBypass(search_used)

\* connect_to_jira_api asked for verification with no certificate path and
\* no Netskope certificate on disk, and was given True
C22_Witness ==
    /\ ssl_op = "connect_to_jira_api"
    /\ ~connect_used.bypass_verify
    /\ connect_used.cert_path = None
    /\ find_netskope_certificate(files) = None
    /\ connect_used.verify = "True"

\* the step is a POST /api/settings/ssl answered with status 400
PostRejected == ssl_op' = "update_ssl_settings" /\ ssl_reply'.status = 400

\* C26: a POST /api/settings/ssl rejected with status 400 leaves
\* use_ssl_verification, certificate_path and last_updated of the global
\* SSL settings as they were before the request.
C26_RejectedPostChangesNothing ==
    [][PostRejected => endpoints_SSL_SETTINGS' = endpoints_SSL_SETTINGS]_vars

(***************************************************************************)
(* Properties of the scheduler                                             *)
(***************************************************************************)
StartupEndpoints ==
    <<"api/update-status", "api/collect-closed-details", "api/collect-ac-details">>
InLoop == sched_pc \in {"run_pending", "sleep"}
\* the endpoints called so far from the start-up block, in call order
StartupCalled ==
    [i \in DOMAIN SelectSeq(calls, LAMBDA e : e.trigger = "startup") |->
        SelectSeq(calls, LAMBDA e : e.trigger = "startup")[i].call.endpoint]

\* the start-up calls made so far are the first of the three endpoints in
\* order, each once; all three once the loop is entered; none after a call
\* of the loop
StartupInOrder ==
    /\ Len(StartupCalled) <= 3
    /\ StartupCalled = SubSeq(StartupEndpoints, 1, Len(StartupCalled))
    /\ sched_pc = "update_status_job" => Len(StartupCalled) = 0
    /\ sched_pc = "collect_closed_details_job" => Len(StartupCalled) = 1
    /\ sched_pc = "collect_ac_details_job" => Len(StartupCalled) = 2
    /\ InLoop => Len(StartupCalled) = 3
    /\ \A i \in DOMAIN calls : \A j \in DOMAIN calls :
           (i < j /\ calls[i].trigger = "scheduled") => calls[j].trigger = "scheduled"
\* run_scheduler ends on Ctrl+C only
StopsOnlyOnInterrupt == sched_pc = "stopped" => stop_cause = "KeyboardInterrupt"

\* C30: run_scheduler calls update-status, collect-closed-details and
\* collect-ac-details once each, in this order, before it enters the polling
\* loop; whatever a call meets (connection error, non-200 answer, exception
\* while handling the answer), the next job is called and the loop is
\* entered and goes on, unless the user interrupts.
C30_StartupJobsThenLoop ==
    /\ [](StartupInOrder /\ StopsOnlyOnInterrupt)
    /\ <>(InLoop \/ sched_pc = "stopped")
    /\ [](sched_pc = "run_pending" => <>(sched_pc \in {"sleep", "stopped"}))

\* the three start-up calls failed in the three ways, the job that came
\* due in the loop failed too, and the loop has gone round once more
C30_Witness ==
    /\ sched_pc = "sleep"
    /\ polls >= 2
    /\ Len(calls) = 4
    /\ calls[1].call.outcome = "ConnectionError"
    /\ calls[2].call.outcome = "500"
    /\ calls[3].call.outcome = "JSONDecodeError"
    /\ calls[4].trigger = "scheduled"
    /\ calls[4].call.outcome = "ConnectionError"

====
